---- MODULE Spec2Model ----
(***************************************************************************)
(* Model of the INNOVUE dashboard (src/src/Dashboard.tsx): the data sync   *)
(* controller (load), the value parser (asNumber), the marquee composer    *)
(* (marqueeCombined, Marquee) and the speed mapping.                       *)
(*                                                                         *)
(* Text is modelled as a sequence of one-character strings; the tokens     *)
(* "EMDASH" and "BULLET" stand for the characters U+2014 and U+2022.       *)
(* Numbers are fixed-point integers in units of 1/Scale; an optional       *)
(* number (number | null) is <<>> for null and <<n>> for the number n.     *)
(***************************************************************************)
EXTENDS Integers, Sequences, FiniteSets, TLC

\* ------------------------------------------------------------------ bounds
\* Fraction digits kept by the fixed-point representation of JS numbers.
FracDigits == 2
\* Largest number of load() invocations in one run (mount + Refresh clicks).
MaxFetches == 2

RECURSIVE Pow10(_)
Pow10(n) == IF n = 0 THEN 1 ELSE 10 * Pow10(n - 1)

Scale == Pow10(FracDigits)

\* ------------------------------------------------------------ text helpers
Digits == <<"0", "1", "2", "3", "4", "5", "6", "7", "8", "9">>

IsDigit(c) == \E i \in 1..10 : Digits[i] = c

DigitVal(c) == (CHOOSE i \in 1..10 : Digits[i] = c) - 1

\* JS whitespace (the model's cells use the space character only).
IsSpace(c) == c = " "

\* The value of an absent cell (JS undefined).
Undef == <<"UNDEFINED">>

RECURSIVE TrimLeft(_)
TrimLeft(s) ==
  IF s = <<>> THEN <<>>
  ELSE IF IsSpace(Head(s)) THEN TrimLeft(Tail(s)) ELSE s

RECURSIVE TrimRight(_)
TrimRight(s) ==
  IF s = <<>> THEN <<>>
  ELSE IF IsSpace(s[Len(s)]) THEN TrimRight(SubSeq(s, 1, Len(s) - 1)) ELSE s

\* String.prototype.trim
Trim(s) == TrimRight(TrimLeft(s))

NotParen(c) == c # "(" /\ c # ")"

NumericChar(c) == IsDigit(c) \/ c = "." \/ c = "-"

\* s.replace(/[()]/g, "")
RECURSIVE StripParens(_)
StripParens(s) ==
  IF s = <<>> THEN <<>>
  ELSE IF NotParen(Head(s)) THEN <<Head(s)>> \o StripParens(Tail(s))
       ELSE StripParens(Tail(s))

\* s.replace(/[^\d.\-]/g, ""); it subsumes the removal of "$" and ",".
RECURSIVE KeepNumeric(_)
KeepNumeric(s) ==
  IF s = <<>> THEN <<>>
  ELSE IF NumericChar(Head(s)) THEN <<Head(s)>> \o KeepNumeric(Tail(s))
       ELSE KeepNumeric(Tail(s))

RECURSIVE DigitsVal(_)
DigitsVal(s) ==
  IF s = <<>> THEN 0
  ELSE 10 * DigitsVal(SubSeq(s, 1, Len(s) - 1)) + DigitVal(s[Len(s)])

\* The first FracDigits fraction digits, right-padded with zeros.
FracVal(f) ==
  DigitsVal([i \in 1..FracDigits |-> IF i <= Len(f) THEN f[i] ELSE "0"])

\* Number(s) for a string over digits, "." and "-": <<>> is NaN.
\* StringNumericLiteral: optional sign, digits with at most one ".", at least
\* one digit; the empty string converts to 0.
JsNumber(s) ==
  IF s = <<>> THEN <<0>>
  ELSE
    LET neg  == s[1] = "-"
        body == IF neg THEN Tail(s) ELSE s
        dots == {i \in 1..Len(body) : body[i] = "."}
        ok   == /\ \A i \in 1..Len(body) : IsDigit(body[i]) \/ body[i] = "."
                /\ Cardinality(dots) <= 1
                /\ \E i \in 1..Len(body) : IsDigit(body[i])
        dot  == IF dots = {} THEN Len(body) + 1 ELSE CHOOSE i \in dots : TRUE
        mag  == DigitsVal(SubSeq(body, 1, dot - 1)) * Scale
                  + FracVal(SubSeq(body, dot + 1, Len(body)))
    IN IF ~ok THEN <<>> ELSE IF neg THEN <<-mag>> ELSE <<mag>>

\* asNumber(x): number | null
asNumber(x) ==
  IF x = Undef THEN <<>>
  ELSE
    LET s0       == Trim(x)
        parenNeg == Len(s0) >= 2 /\ s0[1] = "(" /\ s0[Len(s0)] = ")"
        s1       == IF parenNeg THEN StripParens(s0) ELSE s0
        s2       == KeepNumeric(s1)
        n        == JsNumber(s2)
    IN IF s0 = <<>> \/ s0 = <<"EMDASH">> \/ s0 = <<"-", "-">> THEN <<>>
       ELSE IF s2 = <<>> \/ s2 = <<"-">> \/ s2 = <<".">> \/ s2 = <<"-", ".">>
         THEN <<>>
       ELSE IF n = <<>> THEN <<>>
       ELSE IF parenNeg THEN <<-(n[1])>> ELSE n

\* ------------------------------------------------------- program constants
\* CONFIG.fallbackLabels
fallbackLabels ==
  [i \in 1..9 |-> <<"T", "i", "l", "e", " ", Digits[i + 1]>>]

\* CONFIG.defaultGreenAt, CONFIG.defaultRedAt (whole numbers, before scaling)
defaultGreenAt == 100

defaultRedAt == 0

\* Mutant of kpiIdx: the nine tiles read from the first nine rows.
kpiIdxContiguous == <<0, 1, 2, 3, 4, 5, 6, 7, 8>>

\* The source rows (0-based) of the nine tiles.
kpiIdx == <<0, 1, 2, 3, 4, 5, 8, 9, 10>>

\* The source rows (0-based) of the feeds questions, reviews, banking,
\* social, news, in that order.
feedIdx == <<6, 7, 13, 14, 15>>

FeedNames == <<"questions", "reviews", "banking", "social", "news">>

\* The separator of parts.join("   BULLET   ")
Separator == <<" ", " ", " ", "BULLET", " ", " ", " ">>

\* useState<number>(80)
initialMarqueeSec == 80

\* The default control of `Number(...) || 70`, and the clamp Math.max(1,
\* Math.min(100, ...)).
defaultCtl == 70

minCtl == 1

maxCtl == 100

\* The base of 40 + (ctl / 100) * 100.
baseSec == 40

\* ---------------------------------------------------------- rows and cells
\* rows[i] || []   (i is 0-based)
RowAt(rows, i) == IF i + 1 <= Len(rows) THEN rows[i + 1] ELSE <<>>

\* r[j]            (j is 0-based; undefined beyond the row's cells)
CellAt(r, j) == IF j + 1 <= Len(r) THEN r[j + 1] ELSE Undef

\* x ?? ""
OrEmpty(x) == IF x = Undef THEN <<>> ELSE x

\* (r[0] ?? "").toString().trim() || CONFIG.fallbackLabels[out]
LabelOf(r, out) ==
  LET s == Trim(OrEmpty(CellAt(r, 0)))
  IN IF s = <<>> THEN fallbackLabels[out] ELSE s

\* (asNumber(r[2]) as number) ?? CONFIG.defaultGreenAt
GreenOf(r) ==
  LET n == asNumber(CellAt(r, 2))
  IN IF n = <<>> THEN defaultGreenAt * Scale ELSE n[1]

\* (asNumber(r[3]) as number) ?? CONFIG.defaultRedAt
RedOf(r) ==
  LET n == asNumber(CellAt(r, 3))
  IN IF n = <<>> THEN defaultRedAt * Scale ELSE n[1]

\* (r[5] ?? "").toString().trim()
UnitOf(r) == Trim(OrEmpty(CellAt(r, 5)))

\* safe(ri): rows[ri] && rows[ri][1] ? String(rows[ri][1]) : ""
safe(rows, ri) ==
  IF ri + 1 <= Len(rows) /\ CellAt(rows[ri + 1], 1) # Undef
    THEN CellAt(rows[ri + 1], 1)
    ELSE <<>>

\* Mutant of CtlOf: the upper clamp Math.min(100, ...) is missing.
CtlOfNoUpperClamp(raw) ==
  LET n == JsNumber(KeepNumeric(OrEmpty(raw)))
      v == IF n = <<>> \/ n = <<0>> THEN defaultCtl * Scale ELSE n[1]
  IN IF v < minCtl * Scale THEN minCtl * Scale ELSE v

\* The control of the speed cell:
\*   Math.max(1, Math.min(100, Number(String(raw).replace(/[^\d.-]/g, "")) || 70))
\* with raw = rows[10]?.[6] ?? "".  NaN and 0 are falsy.
CtlOf(raw) ==
  LET n == JsNumber(KeepNumeric(OrEmpty(raw)))
      v == IF n = <<>> \/ n = <<0>> THEN defaultCtl * Scale ELSE n[1]
      c == IF v > maxCtl * Scale THEN maxCtl * Scale ELSE v
  IN IF c < minCtl * Scale THEN minCtl * Scale ELSE c

\* 40 + (ctl / 100) * 100, in units of 1/Scale seconds.  The real-number
\* value; the double result differs from it by at most an ulp and equals it
\* for the whole controls 1..100.
SecOf(ctl) == baseSec * Scale + ctl

\* rows[10]?.[6]
SpeedCell(rows) == CellAt(RowAt(rows, 10), 6)

\* The KPI and marquee state computed by load() from the fetched rows.
Snapshot(rows) ==
  [ labels     |-> [out \in 1..9 |-> LabelOf(RowAt(rows, kpiIdx[out]), out)],
    values     |-> [out \in 1..9 |->
                      asNumber(CellAt(RowAt(rows, kpiIdx[out]), 1))],
    greens     |-> [out \in 1..9 |-> GreenOf(RowAt(rows, kpiIdx[out]))],
    reds       |-> [out \in 1..9 |-> RedOf(RowAt(rows, kpiIdx[out]))],
    units      |-> [out \in 1..9 |-> UnitOf(RowAt(rows, kpiIdx[out]))],
    mqTexts    |-> [k \in 1..5 |-> safe(rows, feedIdx[k])],
    marqueeSec |-> SecOf(CtlOf(SpeedCell(rows))) ]

\* The useState initial values of the same fields.
InitialData ==
  [ labels     |-> fallbackLabels,
    values     |-> [out \in 1..9 |-> <<>>],
    greens     |-> [out \in 1..9 |-> defaultGreenAt * Scale],
    reds       |-> [out \in 1..9 |-> defaultRedAt * Scale],
    units      |-> [out \in 1..9 |-> <<>>],
    mqTexts    |-> [k \in 1..5 |-> <<>>],
    marqueeSec |-> initialMarqueeSec * Scale ]

\* --------------------------------------------------------- marquee composer
\* parts.join(sep)
RECURSIVE Join(_)
Join(parts) ==
  IF parts = <<>> THEN <<>>
  ELSE IF Len(parts) = 1 THEN parts[1]
  ELSE parts[1] \o Separator \o Join(Tail(parts))

\* The parts pushed by the five `if (pick.k && mqTexts.k?.trim())` statements.
RECURSIVE PartsFrom(_, _, _)
PartsFrom(k, p, texts) ==
  IF k > 5 THEN <<>>
  ELSE (IF p[k] /\ Trim(texts[k]) # <<>> THEN <<Trim(texts[k])>> ELSE <<>>)
         \o PartsFrom(k + 1, p, texts)

\* Mutant of Compose: the parts are tested with `pick.k && mqTexts.k`, so a
\* feed of spaces contributes an empty part.
RECURSIVE PartsFromUntested(_, _, _)
PartsFromUntested(k, p, texts) ==
  IF k > 5 THEN <<>>
  ELSE (IF p[k] /\ texts[k] # <<>> THEN <<Trim(texts[k])>> ELSE <<>>)
         \o PartsFromUntested(k + 1, p, texts)

ComposeUntested(p, texts) == Join(PartsFromUntested(1, p, texts))

\* marqueeCombined
Compose(p, texts) == Join(PartsFrom(1, p, texts))

\* Mutant of MarqueeRenders: only a missing text renders nothing.
MarqueeRendersNonNull(text) == text # Undef

\* Marquee: `if (!text?.trim()) return null`
MarqueeRenders(text) == Trim(text) # <<>>

\* ------------------------------------------------------------ KPI presenter
RECURSIVE Gcd(_, _)
Gcd(a, b) == IF b = 0 THEN a ELSE Gcd(b, a % b)

Abs(n) == IF n < 0 THEN -n ELSE n

\* The colour token "#5b5b5b".
Gray == [kind |-> "gray", num |-> 0, den |-> 1]

\* The colour token `hsl(${hue}, 70%, 45%)` with hue = num / den degrees, in
\* lowest terms.
Hsl(num, den) ==
  LET g == Gcd(Abs(num), den)
  IN [kind |-> "hsl", num |-> num \div g, den |-> den \div g]

\* Mutant of valueToColorByTargets: t is not clamped to [0, 1].
valueToColorUnclamped(value, greenAt, redAt) ==
  IF value = <<>> THEN Gray
  ELSE
    LET denom == greenAt - redAt
        n == IF denom < 0 THEN -(value[1] - redAt) ELSE value[1] - redAt
        d == Abs(denom)
    IN IF denom = 0 THEN Hsl(60, 1) ELSE Hsl(120 * n, d)

\* valueToColorByTargets(value, greenAt, redAt).  greenAt and redAt are
\* always finite here, so G = greenAt and R = redAt.  t is the real-number
\* quotient clamped to [0, 1]; the double quotient rounds it monotonically
\* and is exact at t = 0, 1/2 and 1.
valueToColorByTargets(value, greenAt, redAt) ==
  IF value = <<>> THEN Gray
  ELSE
    LET denom == greenAt - redAt
        \* t = n / d with d > 0
        n == IF denom < 0 THEN -(value[1] - redAt) ELSE value[1] - redAt
        d == Abs(denom)
    IN IF denom = 0 THEN Hsl(60, 1)
       ELSE IF n <= 0 THEN Hsl(0, 1)
       ELSE IF n >= d THEN Hsl(120, 1)
       ELSE Hsl(120 * n, d)

\* String.prototype.toLowerCase, on the letters of the unit tokens.
LowerChar(c) ==
  CASE c = "U" -> "u" [] c = "S" -> "s" [] c = "D" -> "d" [] c = "O" -> "o"
    [] c = "L" -> "l" [] c = "A" -> "a" [] c = "R" -> "r" [] OTHER -> c

ToLower(s) == [i \in 1..Len(s) |-> LowerChar(s[i])]

\* The decimal digits of k >= 0.
RECURSIVE IntText(_)
IntText(k) ==
  IF k < 10 THEN <<Digits[k + 1]>>
  ELSE IntText(k \div 10) \o <<Digits[(k % 10) + 1]>>

\* en-US grouping: a comma before every group of three digits.
RECURSIVE Grouped(_)
Grouped(ds) ==
  IF Len(ds) <= 3 THEN ds
  ELSE Grouped(SubSeq(ds, 1, Len(ds) - 3)) \o <<",">>
         \o SubSeq(ds, Len(ds) - 2, Len(ds))

\* Math.round(n): floor(n + 0.5), an integer (ties go up).
MathRound(n) == (2 * n + Scale) \div (2 * Scale)

\* String(k) for an integer k (Math.round's -0 prints as "0").
NumText(k) == IF k < 0 THEN <<"-">> \o IntText(-k) ELSE IntText(k)

\* Intl.NumberFormat("en-US", {style: "currency", currency: "USD",
\* maximumFractionDigits: 0}).format(n): the magnitude rounded half away
\* from zero (halfExpand), grouped, after the sign of n and "$".
CurrencyText(n) ==
  (IF n < 0 THEN <<"-">> ELSE <<>>) \o <<"$">>
    \o Grouped(IntText((2 * Abs(n) + Scale) \div (2 * Scale)))

\* Mutant of formatByUnit: the `n == null` test is missing, and null is
\* rounded as the number 0.
formatByUnitNoNull(n, unitToken) ==
  LET u == ToLower(Trim(unitToken))
      x == IF n = <<>> THEN 0 ELSE n[1]
  IN IF u = <<"$">> \/ u = <<"u", "s", "d">>
          \/ u = <<"d", "o", "l", "l", "a", "r">>
       THEN CurrencyText(x)
     ELSE IF u = <<"%">> THEN NumText(MathRound(x)) \o <<"%">>
     ELSE NumText(MathRound(x))

\* formatByUnit(n, unitToken)
formatByUnit(n, unitToken) ==
  IF n = <<>> THEN <<"EMDASH">>
  ELSE
    LET u == ToLower(Trim(unitToken))
    IN IF u = <<"$">> \/ u = <<"u", "s", "d">>
            \/ u = <<"d", "o", "l", "l", "a", "r">>
         THEN CurrencyText(n[1])
       ELSE IF u = <<"%">> THEN NumText(MathRound(n[1])) \o <<"%">>
       ELSE NumText(MathRound(n[1]))

\* ------------------------------------------------- the spreadsheet (input)
\* The responses of the Sheets endpoint are drawn from a fixed collection of
\* windows of A2:G17.  A window is described by: n, the number of rows the
\* response carries (the API omits trailing empty rows and trailing empty
\* cells); tile, the variant of the KPI rows; feed, the variant of the feed
\* rows; ctl, the text of the speed cell G12 (Undef: row 10 ends before it).

\* Cells of the KPI rows, indexed by the 0-based row + 1 (rows 6, 7 are feed
\* rows and unused here).
Values1 ==
  << <<"$", "1", ",", "2", "3", "4">>,
     <<"(", "2", ".", "5", "%", ")">>,
     <<"a", "b", "c">>,
     <<"EMDASH">>,
     <<"5", "5", ".", "4">>,
     <<"-", "-">>,
     <<>>,
     <<>>,
     <<"-", "7">>,
     <<"1", ".", "2", ".", "3">>,
     <<"(", "-", "5", ")">> >>

Units1 ==
  << <<"$">>,
     <<"%">>,
     <<>>,
     <<" ", "U", "S", "D", " ">>,
     <<"%">>,
     <<>>,
     <<>>,
     <<>>,
     <<"$">>,
     <<>>,
     <<"%">> >>

Labels2 ==
  << <<"T", "i", "l", "e", " ", "9">>,
     <<" ", " ">>,
     <<"T", "i", "l", "e", " ", "1">>,
     <<" ", "N", "e", "t", " ">>,
     <<>>,
     <<"T", "i", "l", "e", " ", "6">>,
     <<>>,
     <<>>,
     <<"T", "i", "l", "e", " ", "2">>,
     <<"EMDASH">>,
     <<"T", "i", "l", "e", " ", "7">> >>

Values2 ==
  << <<" ", " ">>,
     <<"1", "2">>,
     <<"(", "3", ")">>,
     <<"-", ".", "5">>,
     <<".">>,
     <<"5", "-", "3">>,
     <<>>,
     <<>>,
     <<"0">>,
     <<"9", "9", ".", "5", "%">>,
     <<"1", ",", "0", "0", "0">> >>

Greens2 ==
  << <<"a", "b", "c">>,
     <<"5", "0">>,
     <<>>,
     <<"(", "1", "0", ")">>,
     <<"5", "0">>,
     <<"7">>,
     <<>>,
     <<>>,
     <<"0">>,
     <<"1", ",", "0", "0", "0">>,
     <<"x">> >>

Reds2 ==
  << <<"5", "0">>,
     <<"5", "0">>,
     <<>>,
     <<"2", "0">>,
     <<"a", "b", "c">>,
     <<"(", "7", ")">>,
     <<>>,
     <<>>,
     <<"0">>,
     <<"1", "0">>,
     <<"-">> >>

\* Feed texts of the three feed variants, in the order of feedIdx.
FeedTexts ==
  << << <<"Q">>, <<" ", "R", " ">>, <<"B", " ", "b">>, <<"S">>, <<"N", " ">> >>,
     << <<>>, <<" ", " ">>, <<"B">>, Undef, <<" ", "N">> >>,
     << <<>>, <<" ">>, Undef, <<>>, <<" ", " ">> >> >>

\* The label "K<r>" of row r in tile variants 1 and 3.
RowLabel(r) ==
  IF r < 10 THEN <<"K", Digits[r + 1]>> ELSE <<"K", "1", Digits[r - 9]>>

\* Append the speed cell as the 7th cell of a row (cells 0..5 padded).
WithCtl(row, ctl) ==
  IF ctl = Undef THEN row
  ELSE [j \in 1..6 |-> IF j <= Len(row) THEN row[j] ELSE <<>>] \o <<ctl>>

KpiRow(p, r) ==
  LET row ==
        CASE p.tile = 1 ->
               << RowLabel(r), Values1[r + 1], <<"2", "0", "0", "0">>, <<"0">>,
                  <<>>, Units1[r + 1] >>
          [] p.tile = 2 ->
               << Labels2[r + 1], Values2[r + 1], Greens2[r + 1],
                  Reds2[r + 1] >>
          [] OTHER ->
               IF r % 2 = 0 THEN << RowLabel(r) >> ELSE <<>>
  IN IF r = 10 THEN WithCtl(row, p.ctl) ELSE row

FeedRow(p, k) ==
  IF FeedTexts[p.feed][k] = Undef THEN << <<"f">> >>
  ELSE << <<"f">>, FeedTexts[p.feed][k] >>

\* The layout of the sheet: the rows (0-based) that hold the five feeds, in
\* the order questions, reviews, banking, social, news, and the KPI rows.
SheetFeedRows == <<6, 7, 13, 14, 15>>

SheetKpiRows == {0, 1, 2, 3, 4, 5, 8, 9, 10}

RowOf(p, r) ==
  IF \E k \in 1..5 : SheetFeedRows[k] = r
    THEN FeedRow(p, CHOOSE k \in 1..5 : SheetFeedRows[k] = r)
  ELSE IF r \in SheetKpiRows THEN KpiRow(p, r)
  ELSE <<>>

\* json.values || []
Rows(p) == [i \in 1..p.n |-> RowOf(p, i - 1)]

SheetParams ==
  { [n |-> 16, tile |-> 1, feed |-> 1, ctl |-> <<"1">>],
    [n |-> 16, tile |-> 2, feed |-> 2, ctl |-> <<"1", "0", "0">>],
    [n |-> 16, tile |-> 2, feed |-> 1, ctl |-> <<"a", "b", "c">>],
    [n |-> 16, tile |-> 1, feed |-> 3, ctl |-> <<"0">>],
    [n |-> 14, tile |-> 3, feed |-> 1, ctl |-> <<"1", "5", "0">>],
    [n |-> 16, tile |-> 1, feed |-> 2, ctl |-> <<"-", "5">>],
    [n |-> 16, tile |-> 2, feed |-> 2, ctl |-> <<"5", "0">>],
    [n |-> 16, tile |-> 3, feed |-> 3, ctl |-> <<"1", ".", "2", ".", "3">>],
    [n |-> 9,  tile |-> 1, feed |-> 1, ctl |-> Undef],
    [n |-> 0,  tile |-> 1, feed |-> 1, ctl |-> Undef] }

Sheets == { Rows(p) : p \in SheetParams }

\* Windows of one row, for the value parser and the KPI presenter: the
\* value, green, red and unit cells of row 0 are drawn from these sets.
TileValueCells ==
  { <<"2", ".", "5">>,
    <<"-", "2", ".", "5">>,
    <<"(", "2", ".", "5", ")">>,
    <<"(", "5", ")">>,
    <<"(", "-", "5", ")">>,
    <<"5">>,
    <<"3">>,
    <<"-", "3">>,
    <<"0">>,
    <<"0", ".", "5">>,
    <<"-", "0", ".", "5">>,
    <<"a", "b", "c">>,
    <<"5", "-", "3">>,
    <<"1", ".", "2", ".", "3">>,
    <<>>,
    <<" ">>,
    <<"EMDASH">>,
    <<"-", "-">> }

TileThresholdCells == { <<"0">>, <<"3">>, <<>> }

TileUnitCells == { <<"$">>, <<"%">>, <<>> }

TileSheets ==
  { << << <<"K">>, v, g, r, <<>>, u >> >> :
      v \in TileValueCells, g \in TileThresholdCells,
      r \in TileThresholdCells, u \in TileUnitCells }

\* load()'s result for each window, computed once.
SnapshotOf == [rows \in Sheets |-> Snapshot(rows)]

\* The one-row windows, each with load()'s result for it.
TileResponses == { [rows |-> rows, next |-> Snapshot(rows)] : rows \in TileSheets }

\* The messages of the failures of one fetch: fetch() rejects; the response
\* is not ok, with or without error.message in its body; res.json() throws
\* on an ok response.
FailureMsgs ==
  { "Failed to fetch", "HTTP 403", "HTTP 403 - quota", "Unexpected token" }

\* -------------------------------------------------------------- the state
VARIABLES
  status,      \* LoadState
  statusMsg,
  lastSync,    \* Date | null: <<>> or <<t>>
  rangeView,
  labels, values, greens, reds, units,
  pick,        \* the five selection flags, in the order of FeedNames
  mqTexts,     \* the five feed texts, in the order of FeedNames
  marqueeSec,
  showSales,
  mounted,     \* the mount effect has run
  inflight,    \* the load() invocations awaiting their fetch
  issued,      \* the number of load() invocations so far (the latest's id)
  now,         \* the clock read by new Date(); it ticks as a fetch completes
  clicks,      \* history: the number of Refresh clicks
  applied      \* history: <<>>, or <<rows, t, id>>: the body, the completion
               \* time and the load() invocation of the last successful response

vars ==
  << status, statusMsg, lastSync, rangeView, labels, values, greens, reds,
     units, pick, mqTexts, marqueeSec, showSales, mounted, inflight, issued,
     now, clicks, applied >>

\* The fields one sync cycle publishes.
Data ==
  [ labels |-> labels, values |-> values, greens |-> greens, reds |-> reds,
    units |-> units, mqTexts |-> mqTexts, marqueeSec |-> marqueeSec ]

dataVars == << labels, values, greens, reds, units, mqTexts, marqueeSec >>

uiVars == << rangeView, pick, showSales >>

Views == {"Day", "Week", "Month"}

Init ==
  /\ status = "idle"
  /\ statusMsg = ""
  /\ lastSync = <<>>
  /\ rangeView = "Day"
  /\ labels = InitialData.labels
  /\ values = InitialData.values
  /\ greens = InitialData.greens
  /\ reds = InitialData.reds
  /\ units = InitialData.units
  /\ pick = [k \in 1..5 |-> TRUE]
  /\ mqTexts = InitialData.mqTexts
  /\ marqueeSec = InitialData.marqueeSec
  /\ showSales = FALSE
  /\ mounted = FALSE
  /\ inflight = {}
  /\ issued = 0
  /\ now = 0
  /\ clicks = 0
  /\ applied = <<>>

\* ------------------------------------------------------------- the actions
\* load(), up to `await fetch(...)`: setStatus("loading"); setStatusMsg("").
LoadStart ==
  /\ issued < MaxFetches
  /\ status' = "loading"
  /\ statusMsg' = ""
  /\ issued' = issued + 1
  /\ inflight' = inflight \cup {issued + 1}
  /\ UNCHANGED << lastSync, dataVars, uiVars, now, applied >>

\* useEffect(() => { load(); }, [])
Mount ==
  /\ ~mounted
  /\ mounted' = TRUE
  /\ LoadStart
  /\ UNCHANGED clicks

\* Mutant of Refresh: the button is disabled while a sync is loading.
RefreshWhenSettled ==
  /\ mounted
  /\ status # "loading"
  /\ clicks' = clicks + 1
  /\ LoadStart
  /\ UNCHANGED mounted

\* <button onClick={load}>Refresh</button>
Refresh ==
  /\ mounted
  /\ clicks' = clicks + 1
  /\ LoadStart
  /\ UNCHANGED mounted

\* load() after its fetch resolved with an ok response whose body is rows:
\* the try block from `const rows` to setLastSync(new Date()).  next is
\* Snapshot(rows).
Publish(id, rows, next) ==
  /\ id \in inflight
  /\ inflight' = inflight \ {id}
  /\ now' = now + 1
  /\ mqTexts' = next.mqTexts
  /\ marqueeSec' = next.marqueeSec
  /\ labels' = next.labels
  /\ values' = next.values
  /\ greens' = next.greens
  /\ reds' = next.reds
  /\ units' = next.units
  /\ status' = "ok"
  /\ lastSync' = <<now + 1>>
  /\ applied' = <<rows, now + 1, id>>
  /\ UNCHANGED << statusMsg, uiVars, mounted, issued, clicks >>

\* Mutant of ResolveOk: load() carries a request id and drops the response of
\* an invocation that is no longer the latest.
ResolveOkGuarded(id, rows) ==
  IF id = issued
    THEN Publish(id, rows, SnapshotOf[rows])
    ELSE /\ id \in inflight
         /\ inflight' = inflight \ {id}
         /\ now' = now + 1
         /\ applied' = <<rows, now + 1, id>>
         /\ UNCHANGED << status, statusMsg, lastSync, dataVars, uiVars, mounted,
                         issued, clicks >>

ResolveOk(id, rows) == Publish(id, rows, SnapshotOf[rows])

\* Mutant of ResolveFail: the catch block also blanks the tile values.
ResolveFailReset(id, msg) ==
  /\ id \in inflight
  /\ inflight' = inflight \ {id}
  /\ now' = now + 1
  /\ status' = "error"
  /\ statusMsg' = msg
  /\ values' = [out \in 1..9 |-> <<>>]
  /\ UNCHANGED << lastSync, labels, greens, reds, units, mqTexts, marqueeSec,
                  uiVars, mounted, issued, clicks, applied >>

\* load() after its fetch failed (rejected, not ok, or unreadable body): the
\* catch block.
ResolveFail(id, msg) ==
  /\ id \in inflight
  /\ inflight' = inflight \ {id}
  /\ now' = now + 1
  /\ status' = "error"
  /\ statusMsg' = msg
  /\ UNCHANGED << lastSync, dataVars, uiVars, mounted, issued, clicks, applied >>

\* Mutant of togglePick: the updater drops the spread, setPick((p) => ({ [k]:
\* !p[k] })), so the other four flags read as false.
togglePickExclusive(k) ==
  /\ mounted
  /\ pick' = [j \in 1..5 |-> IF j = k THEN ~pick[k] ELSE FALSE]
  /\ UNCHANGED << status, statusMsg, lastSync, rangeView, dataVars, showSales,
                  mounted, inflight, issued, now, clicks, applied >>

\* togglePick(k): setPick((p) => ({ ...p, [k]: !p[k] }))
togglePick(k) ==
  /\ mounted
  /\ pick' = [pick EXCEPT ![k] = ~pick[k]]
  /\ UNCHANGED << status, statusMsg, lastSync, rangeView, dataVars, showSales,
                  mounted, inflight, issued, now, clicks, applied >>

\* Mutant of setRangeView: the rangeView effect reloads on a view change.
setRangeViewReloads(v) ==
  /\ mounted
  /\ rangeView' = v
  /\ IF v # rangeView /\ issued < MaxFetches
       THEN /\ status' = "loading"
            /\ statusMsg' = ""
            /\ issued' = issued + 1
            /\ inflight' = inflight \cup {issued + 1}
       ELSE UNCHANGED << status, statusMsg, issued, inflight >>
  /\ UNCHANGED << lastSync, pick, dataVars, showSales, mounted, now, clicks,
                  applied >>

\* onClick={() => setRangeView(v)}
setRangeView(v) ==
  /\ mounted
  /\ rangeView' = v
  /\ UNCHANGED << status, statusMsg, lastSync, pick, dataVars, showSales,
                  mounted, inflight, issued, now, clicks, applied >>

\* The Sales tile: onClick / Enter / Space => setShowSales(true)
openSales ==
  /\ mounted
  /\ showSales' = TRUE
  /\ UNCHANGED << status, statusMsg, lastSync, rangeView, pick, dataVars,
                  mounted, inflight, issued, now, clicks, applied >>

\* closeSales: the Close button, the overlay click, the Escape key
closeSales ==
  /\ mounted
  /\ showSales' = FALSE
  /\ UNCHANGED << status, statusMsg, lastSync, rangeView, pick, dataVars,
                  mounted, inflight, issued, now, clicks, applied >>

Next ==
  \/ Mount
  \/ Refresh
  \/ \E id \in inflight, rows \in Sheets : ResolveOk(id, rows)
  \/ \E id \in inflight, msg \in FailureMsgs : ResolveFail(id, msg)
  \/ \E k \in 1..5 : togglePick(k)
  \/ \E v \in Views : setRangeView(v)
  \/ openSales
  \/ closeSales

Spec == Init /\ [][Next]_vars

\* The fetch of load() invocation id settles, one way or the other, and
\* load() resumes after its await.
Complete(id) ==
  \/ \E rows \in Sheets : ResolveOk(id, rows)
  \/ \E msg \in FailureMsgs : ResolveFail(id, msg)

\* The sync lifecycle alone: the mount effect, the Refresh button and the
\* completions.  The selection, view and panel handlers write none of its
\* variables and are left out.
NextSync ==
  \/ Mount
  \/ Refresh
  \/ \E id \in inflight : Complete(id)

\* The sync lifecycle when fetches settle: while some fetch is pending, one
\* of the pending fetches eventually settles.  This is implied by every
\* issued fetch eventually settling.
SyncSpec ==
  Init /\ [][NextSync]_vars /\ WF_vars(\E id \in inflight : Complete(id))

\* The sync controller fed with the one-row windows: every value cell under
\* every threshold pair and unit, in one sync and in two successive syncs.
NextTile ==
  \/ Mount
  \/ Refresh
  \/ \E id \in inflight, r \in TileResponses : Publish(id, r.rows, r.next)

SpecTile == Init /\ [][NextTile]_vars

\* ------------------------------------------------------------ derived view
\* marqueeCombined of the current render
marqueeCombined == Compose(pick, mqTexts)

\* <Marquee text={marqueeCombined} .../> renders the bar
marqueeShown == MarqueeRenders(marqueeCombined)

\* The colour of tile i: valueToColorByTargets(values[i], greens[i] ??
\* defaultGreenAt, reds[i] ?? defaultRedAt); greens[i] and reds[i] are never
\* null.
tileColor(i) == valueToColorByTargets(values[i], greens[i], reds[i])

\* The text of tile i: formatByUnit(values[i], units[i])
tileShown(i) == formatByUnit(values[i], units[i])

\* ================================================================ claims
\* The published fields a run shows once `applied` was the last successful
\* response.
DataOfApplied ==
  IF applied = <<>> THEN InitialData ELSE SnapshotOf[applied[1]]

\* A step in which some load() invocation completes.
Resolved == inflight' # inflight /\ inflight' \subseteq inflight

\* ------------------------------------------------------------------- C1
AllowedTransitions ==
  { <<"idle", "loading">>, <<"loading", "ok">>, <<"loading", "error">>,
    <<"ok", "loading">>, <<"error", "loading">> }

\* C1: over any sequence of mount, Refresh clicks and fetch completions, the
\* status changes only along idle -> loading, loading -> ok, loading ->
\* error, ok -> loading and error -> loading.
C1_OnlyAllowedTransitions ==
  [][status' # status => <<status, status'>> \in AllowedTransitions]_vars

\* ------------------------------------------------------------------- C2
\* C2: the completion of a fetch that is not the latest issued changes
\* neither the tiles, the feeds, the loop duration nor the status.
C2_StaleResponsesDiscarded ==
  [][\A id \in inflight \ inflight' :
       id # issued => UNCHANGED << dataVars, status >>]_vars

\* ------------------------------------------------------------------- C3
\* C3: a fetch cycle is all-or-nothing.  The published fields are always
\* those of one response (the last successful one, or the initial values);
\* a successful completion publishes all of its response and sets status ok;
\* a failed completion changes no published field and sets status error
\* with a message; nothing else changes a published field.
C3_AllOrNothing ==
  [][/\ Data = DataOfApplied
     /\ Data' = DataOfApplied'
     /\ applied' # applied =>
          /\ Resolved
          /\ status' = "ok"
          /\ lastSync' = <<applied'[2]>>
     /\ (Resolved /\ applied' = applied) =>
          /\ UNCHANGED << dataVars, lastSync >>
          /\ status' = "error"
          /\ statusMsg' # ""
     /\ Data' # Data => applied' # applied]_vars

\* A failed fetch after a successful one: status error, the snapshot kept.
C3_Witness ==
  /\ status = "error"
  /\ statusMsg = "HTTP 403"
  /\ applied # <<>>
  /\ Len(applied[1]) = 16
  /\ Data = SnapshotOf[applied[1]]
  /\ Data # InitialData

\* ------------------------------------------------------------------- C4
\* C4: from the trigger of a refresh until that fetch resolves, the tiles,
\* the feeds, the loop duration and the last-sync timestamp keep their
\* values: no step that leaves a fetch in flight changes them.
C4_StaleUntilResolved ==
  [][(\E id \in inflight : id \in inflight') =>
       UNCHANGED << dataVars, lastSync >>]_vars

\* ------------------------------------------------------------------- C5
\* C5: the number of fetches issued is one (the mount) plus the number of
\* Refresh clicks, and zero before the mount effect ran.
C5_FetchesAreMountPlusClicks ==
  issued = (IF mounted THEN 1 + clicks ELSE 0)

\* The mount fetch failed and the user then switched the view, toggled a
\* selection and opened the panel: no fetch was issued since.
C5_Witness ==
  /\ status = "error"
  /\ inflight = {}
  /\ clicks = 0
  /\ issued = 1
  /\ rangeView = "Week"
  /\ ~pick[2]
  /\ showSales

\* ------------------------------------------------------------------- C6
\* The source row of tile N, as the sheet lays the tiles out.
C6_SourceRow == <<0, 1, 2, 3, 4, 5, 8, 9, 10>>

\* Cell c of source row r of the window is present.
C6_Present(rows, r, c) == r < Len(rows) /\ c < Len(rows[r + 1])

\* Tile N has the defaults: label "Tile N", no value, greenAt 100, redAt 0,
\* no unit.
C6_IsDefault(N) ==
  /\ labels[N] = <<"T", "i", "l", "e", " ", Digits[N + 1]>>
  /\ values[N] = <<>>
  /\ greens[N] = 100 * Scale
  /\ reds[N] = 0
  /\ units[N] = <<>>

\* What the claim expects of tile N after a sync of the window rows.
C6_ExpectedTile(rows, N) ==
  LET r       == C6_SourceRow[N]
      has(c)  == C6_Present(rows, r, c)
      cell(c) == rows[r + 1][c + 1]
  IN [ label |-> IF has(0) /\ Trim(cell(0)) # <<>> THEN Trim(cell(0))
                 ELSE <<"T", "i", "l", "e", " ", Digits[N + 1]>>,
       value |-> IF has(1) THEN asNumber(cell(1)) ELSE <<>>,
       green |-> IF has(2) /\ asNumber(cell(2)) # <<>>
                   THEN asNumber(cell(2))[1] ELSE 100 * Scale,
       red   |-> IF has(3) /\ asNumber(cell(3)) # <<>>
                   THEN asNumber(cell(3))[1] ELSE 0,
       unit  |-> IF has(5) THEN Trim(cell(5)) ELSE <<>> ]

C6_Expected == [rows \in Sheets |-> [N \in 1..9 |-> C6_ExpectedTile(rows, N)]]

\* C6: there are always exactly nine tiles; after a successful sync tile N
\* is built from source row [0,1,2,3,4,5,8,9,10][N-1] whatever the labels
\* say, a missing row gives the tile its defaults, a missing cell gives the
\* default of its field, and the sync that delivered the window completed.
C6_TilesArePositional ==
  /\ Len(labels) = 9 /\ Len(values) = 9 /\ Len(greens) = 9
  /\ Len(reds) = 9 /\ Len(units) = 9
  /\ applied # <<>> => lastSync = <<applied[2]>>
  /\ applied # <<>> =>
       \A N \in 1..9 :
         LET want == C6_Expected[applied[1]][N]
         IN /\ labels[N] = want.label
            /\ values[N] = want.value
            /\ greens[N] = want.green
            /\ reds[N] = want.red
            /\ units[N] = want.unit
            /\ C6_SourceRow[N] >= Len(applied[1]) => C6_IsDefault(N)

\* A sync of a window of nine rows succeeded: tiles 8 and 9 (rows 9 and 10,
\* beyond the window) have their defaults, tile 7 shows row 8.
C6_Witness ==
  /\ status = "ok"
  /\ applied # <<>>
  /\ Len(applied[1]) = 9
  /\ C6_IsDefault(8)
  /\ C6_IsDefault(9)
  /\ labels[7] = <<"K", "8">>
  /\ values[7] = <<-7 * Scale>>

\* ------------------------------------------------------------------- C7
\* The feeds that are selected and not blank.
C7_Qualifying ==
  { k \in 1..5 : pick[k] /\ \E i \in 1..Len(mqTexts[k]) : mqTexts[k][i] # " " }

\* A text without its leading and trailing spaces.
C7_Core(s) ==
  LET ix == { i \in 1..Len(s) : s[i] # " " }
  IN IF ix = {} THEN <<>>
     ELSE SubSeq(s, CHOOSE i \in ix : \A j \in ix : i <= j,
                    CHOOSE i \in ix : \A j \in ix : i >= j)

\* The texts of the feeds of S in feed order, the separator between them.
RECURSIVE C7_Joined(_)
C7_Joined(S) ==
  IF S = {} THEN <<>>
  ELSE LET m == CHOOSE k \in S : \A j \in S : k >= j
       IN IF S = {m} THEN C7_Core(mqTexts[m])
          ELSE C7_Joined(S \ {m}) \o <<" ", " ", " ", "BULLET", " ", " ", " ">>
                 \o C7_Core(mqTexts[m])

\* C7: the composed marquee text is the trimmed texts of exactly the feeds
\* that are selected and not blank, in the order questions, reviews,
\* banking, social, news, joined by the separator.
C7_ComposeIsSelectedNonBlank == marqueeCombined = C7_Joined(C7_Qualifying)

\* Questions is unselected, reviews is blank, social is empty: the text is
\* the trimmed banking and news texts with one separator.
C7_Witness ==
  /\ pick = <<FALSE, TRUE, TRUE, TRUE, TRUE>>
  /\ mqTexts = << <<>>, <<" ", " ">>, <<"B">>, <<>>, <<" ", "N">> >>
  /\ marqueeCombined =
       <<"B", " ", " ", " ", "BULLET", " ", " ", " ", "N">>

\* ------------------------------------------------------------------- C8
\* C8: the marquee bar is rendered iff some feed is selected and not blank;
\* when none is, the composed text is empty.
C8_MarqueeIffQualifying ==
  /\ marqueeShown <=> C7_Qualifying # {}
  /\ C7_Qualifying = {} => marqueeCombined = <<>>

\* All five feeds have text and all five selections are off: no bar.
C8_Witness ==
  /\ \A k \in 1..5 : ~pick[k] /\ C7_Core(mqTexts[k]) # <<>>
  /\ ~marqueeShown

\* ------------------------------------------------------------------- C9
\* The text of the speed cell of the last successful response (Undef when
\* the window has no such cell).
AppliedSpeedCell ==
  LET rows == applied[1]
  IN IF C6_Present(rows, 10, 6) THEN rows[11][7] ELSE Undef

\* Speed cells that do not hold a number.
C9_Unparseable == { <<"a", "b", "c">>, <<"1", ".", "2", ".", "3">> }

C10_Control(cell) ==
  IF cell = Undef \/ KeepNumeric(cell) = <<>> THEN <<>>
  ELSE JsNumber(KeepNumeric(cell))

\* C10: the loop duration is non-decreasing in the numeric control value:
\* of two successive successful syncs with numeric controls a and b, a < b
\* implies that a's duration is not longer than b's (and likewise b < a).
C10_MonotoneInControl ==
  [][(applied # <<>> /\ applied' # <<>>) =>
       LET a == C10_Control(AppliedSpeedCell)
           b == C10_Control(AppliedSpeedCell')
       IN (a # <<>> /\ b # <<>>) =>
            /\ a[1] < b[1] => marqueeSec <= marqueeSec'
            /\ b[1] < a[1] => marqueeSec' <= marqueeSec]_vars

\* ------------------------------------------------------------------ C11
\* Cell c (0-based) of row 0 of the last successful response.
AppliedCell(c) ==
  LET rows == applied[1]
  IN IF C6_Present(rows, 0, c) THEN rows[1][c + 1] ELSE Undef

\* The cell text is fully parenthesized: "(" first and ")" last, once the
\* surrounding spaces are dropped.
C11_Parenthesized(cell) ==
  LET s == C7_Core(cell)
  IN Len(s) >= 2 /\ s[1] = "(" /\ s[Len(s)] = ")"

\* The digits and the decimal point of a text.
RECURSIVE C11_DigitsOf(_)
C11_DigitsOf(s) ==
  IF s = <<>> THEN <<>>
  ELSE (IF IsDigit(Head(s)) \/ Head(s) = "." THEN <<Head(s)>> ELSE <<>>)
         \o C11_DigitsOf(Tail(s))

\* C11: a fully parenthesized cell that parses to a number gives a
\* non-positive value whose magnitude is that of the digits inside, whatever
\* minus sign stands inside the parentheses.
C11_ParenthesizedIsNegative ==
  ( /\ applied # <<>>
    /\ AppliedCell(1) # Undef
    /\ C11_Parenthesized(AppliedCell(1))
    /\ values[1] # <<>> ) =>
      /\ values[1][1] <= 0
      /\ <<-(values[1][1])>> = JsNumber(C11_DigitsOf(AppliedCell(1)))

\* ------------------------------------------------------------------ C12
\* The cell text holds no digit (empty, spaces, dashes, letters, ...).
C12_NoDigit(cell) == \A i \in 1..Len(cell) : ~IsDigit(cell[i])

\* C12: a malformed value cell never fails a sync.  For every value cell
\* the sync completes and the tile value is absent or one finite number; a
\* cell without digits gives absent; and an absent value is shown in the
\* neutral gray with the placeholder dash, whatever the thresholds and the
\* unit are.
C12_MalformedIsAbsentAndGray ==
  (applied # <<>> /\ AppliedCell(1) # Undef) =>
    /\ status \in {"ok", "loading"}
    /\ lastSync = <<applied[2]>>
    /\ values[1] = <<>> \/ (Len(values[1]) = 1 /\ values[1][1] \in Int)
    /\ C12_NoDigit(AppliedCell(1)) => values[1] = <<>>
    /\ values[1] = <<>> =>
         /\ tileColor(1) = [kind |-> "gray", num |-> 0, den |-> 1]
         /\ tileShown(1) = <<"EMDASH">>

\* The value cell "1.2.3" under thresholds 3 and 0 and the unit "$": the
\* sync succeeded, the tile is gray and shows the dash.
C12_Witness ==
  /\ status = "ok"
  /\ applied # <<>>
  /\ AppliedCell(1) = <<"1", ".", "2", ".", "3">>
  /\ greens[1] = 3 * Scale
  /\ reds[1] = 0
  /\ units[1] = <<"$">>
  /\ values[1] = <<>>
  /\ tileColor(1).kind = "gray"
  /\ tileShown(1) = <<"EMDASH">>

\* ------------------------------------------------------------------ C13
\* Tile 1 shows a present value.
C13_Present == applied # <<>> /\ values[1] # <<>>

\* The hue of tile 1 is the whole number h.
C13_HueIs(h) == tileColor(1) = [kind |-> "hsl", num |-> h, den |-> 1]

\* What C13 says of one state: the colour of a present value is a hue over a
\* non-zero denominator; with greenAt > redAt it is 0 at value <= redAt and
\* 120 at value >= greenAt; with greenAt = redAt it is 60.
C13_Endpoints ==
  C13_Present =>
    /\ tileColor(1).kind = "hsl"
    /\ tileColor(1).den > 0
    /\ (greens[1] > reds[1] /\ values[1][1] <= reds[1]) => C13_HueIs(0)
    /\ (greens[1] > reds[1] /\ values[1][1] >= greens[1]) => C13_HueIs(120)
    /\ greens[1] = reds[1] => C13_HueIs(60)

\* C13: for present values the hue is non-decreasing in the value when
\* greenAt > redAt (of two successive syncs under the same thresholds, the
\* one with the smaller value has the smaller or equal hue), is exactly 0
\* at value <= redAt and exactly 120 at value >= greenAt, and is 60 for every
\* value when greenAt = redAt, without a division by zero.
C13_HueMonotoneAndExact ==
  [][/\ C13_Endpoints
     /\ C13_Endpoints'
     /\ ( /\ C13_Present
          /\ C13_Present'
          /\ greens' = greens
          /\ reds' = reds
          /\ greens[1] > reds[1]
          /\ values[1][1] <= values'[1][1] ) =>
            tileColor(1).num * tileColor(1)'.den
              <= tileColor(1)'.num * tileColor(1).den]_vars

\* Two syncs under thresholds 3 and 0: the second shows the value 2.5 at
\* hue 100.
C13_Witness ==
  /\ now = 2
  /\ applied # <<>>
  /\ values[1] = <<(5 * Scale) \div 2>>
  /\ greens[1] = 3 * Scale
  /\ reds[1] = 0
  /\ C13_HueIs(100)

\* ------------------------------------------------------------------ C14
\* The digits of a text.
RECURSIVE C14_DigitsOnly(_)
C14_DigitsOnly(s) ==
  IF s = <<>> THEN <<>>
  ELSE (IF IsDigit(Head(s)) THEN <<Head(s)>> ELSE <<>>)
         \o C14_DigitsOnly(Tail(s))

\* The integer a displayed text shows: its digits, negated after a "-".
C14_ShownInt(text) ==
  IF \E i \in 1..Len(text) : text[i] = "-"
    THEN -DigitsVal(C14_DigitsOnly(text))
    ELSE DigitsVal(C14_DigitsOnly(text))

\* v rounded to an integer, halves away from zero.
C14_HalfAway(v) ==
  IF v < 0 THEN -((2 * (-v) + Scale) \div (2 * Scale))
  ELSE (2 * v + Scale) \div (2 * Scale)

\* C14: the displayed integer is the value rounded with halves away from
\* zero; of two successive syncs, opposite values under the same unit show
\* opposite integers, and one value under two units shows one integer.
C14_RoundingIsSymmetric ==
  [][(C13_Present /\ C13_Present') =>
       /\ C14_ShownInt(tileShown(1)) = C14_HalfAway(values[1][1])
       /\ (values'[1][1] = -(values[1][1]) /\ units' = units) =>
            C14_ShownInt(tileShown(1)') = -C14_ShownInt(tileShown(1))
       /\ values'[1][1] = values[1][1] =>
            C14_ShownInt(tileShown(1)') = C14_ShownInt(tileShown(1))]_vars

\* ------------------------------------------------------------------ C15
\* C15: the five selection flags are all true at mount and change only by a
\* user toggle.  A step that changes a flag flips exactly one flag and leaves
\* the other four, the feed texts, the tiles and the status unchanged, and it
\* is no Refresh click and no fetch completion; no Refresh click, fetch
\* success or fetch failure changes a flag.
C15_OnlyTogglesChangeFlags ==
  [][/\ ~mounted => \A k \in 1..5 : pick[k] /\ pick'[k]
     /\ pick' # pick =>
          /\ \E k \in 1..5 : pick' = [pick EXCEPT ![k] = ~pick[k]]
          /\ UNCHANGED << mqTexts, labels, values, greens, reds, units, status >>
          /\ UNCHANGED << inflight, issued, clicks, applied >>
     /\ (clicks' # clicks \/ issued' # issued \/ Resolved) => pick' = pick]_vars

\* Feeds 2 and 4 were deselected, and a Refresh then failed after a successful
\* sync: the two flags are still off, the other three still on.
C15_Witness ==
  /\ pick = [k \in 1..5 |-> k \notin {2, 4}]
  /\ status = "error"
  /\ clicks = 1
  /\ inflight = {}
  /\ applied # <<>>
  /\ Data # InitialData

\* ------------------------------------------------------------------ C16
\* C16: the snapshot is last-write-wins by completion order.  Once the page
\* is mounted and no fetch is in flight, the tiles, the feeds and the loop
\* duration are those of the successful response that completed last,
\* whichever invocation it answered (the initial values if none succeeded),
\* the last-sync time is its completion time, and the status is the outcome
\* of the completion that came last: ok if that was the last successful one,
\* error otherwise.
C16_LastWriteWins ==
  (mounted /\ inflight = {}) =>
    /\ Data = DataOfApplied
    /\ lastSync = (IF applied = <<>> THEN <<>> ELSE <<applied[2]>>)
    /\ applied # <<>> => applied[3] \in 1..issued
    /\ status = (IF applied # <<>> /\ applied[2] = now THEN "ok" ELSE "error")

\* Two fetches were in flight; the second completed first and the first
\* completed last, successfully: the snapshot of the first shows.
C16_Witness ==
  /\ issued = 2
  /\ inflight = {}
  /\ now = 2
  /\ applied # <<>>
  /\ applied[3] = 1
  /\ applied[2] = 2
  /\ status = "ok"
  /\ Data = SnapshotOf[applied[1]]
  /\ Len(applied[1]) = 16

\* ------------------------------------------------------------------ C17
\* C17: the sync lifecycle has no terminal state.  Before the mount effect
\* the mount load is due, and from then on a Refresh click is accepted in
\* every state, whatever the status; a Refresh click puts the status into
\* loading and issues a fetch; the status is loading only while a fetch is in
\* flight; and, every issued fetch eventually settling, a loading status is
\* eventually followed by ok or error.
C17_NoTerminalState ==
  /\ [](~mounted => (status = "idle" /\ ENABLED Mount))
  /\ []((mounted /\ issued < MaxFetches) => ENABLED Refresh)
  /\ [][clicks' # clicks =>
         (status' = "loading" /\ inflight' = inflight \cup {issued'})]_vars
  /\ [](status = "loading" => issued \in inflight)
  /\ (status = "loading" ~> status \in {"ok", "error"})

\* The mount fetch failed, and a Refresh click in the error state was
\* accepted: the status is loading again, the message cleared, the second
\* fetch in flight.
C17_Witness ==
  /\ status = "loading"
  /\ statusMsg = ""
  /\ clicks = 1
  /\ now = 1
  /\ applied = <<>>
  /\ inflight = {2}

====
